---- MODULE Spec2Model ----
(***************************************************************************)
(* Viewing conditions scoring engine of AccessiSky                         *)
(* (src/src/accessisky/api/viewing.py).                                    *)
(*                                                                         *)
(* Numbers.  The Python code computes on floats.  Here every float is a    *)
(* fixed-point integer:                                                    *)
(*   - percentages (cloud cover, moon illumination) are whole percents;    *)
(*   - light_pollution_factor is counted in tenths (0..10 for 0.0..1.0);   *)
(*   - every derived quantity (normalized, interference, the sub-scores'   *)
(*     weighted sum) is counted in millionths (Scale).                     *)
(* x ** 0.7 is the floor, in millionths, of the real power: the largest P  *)
(* with P^10 <= Scale^3 * x^7, found with exact long arithmetic.           *)
(***************************************************************************)
EXTENDS Integers, Sequences, FiniteSets, TLC

\* Documented domain of the percentages (viewing.py:132-133, "0-100").
MaxPercent == 100

\* light_pollution_factor is documented 0-1 (viewing.py:136); counted in tenths.
LpUnit == 10

\* Fixed-point unit of the float values: one is Scale millionths.
Scale == 1000000

(***************************************************************************)
(* Exact arithmetic on naturals too long for a machine integer: a number   *)
(* is the sequence of its base-1000 digits, least significant first, and   *)
(* zero is the empty sequence.                                             *)
(***************************************************************************)
Base == 1000

RECURSIVE BigMulSmall(_, _, _)
BigMulSmall(a, k, carry) ==
    IF a = <<>>
    THEN IF carry = 0 THEN <<>>
         ELSE <<carry % Base>> \o BigMulSmall(<<>>, k, carry \div Base)
    ELSE LET t == Head(a) * k + carry
         IN  <<t % Base>> \o BigMulSmall(Tail(a), k, t \div Base)

\* a * k^n
RECURSIVE BigMulPow(_, _, _)
BigMulPow(a, k, n) ==
    IF n = 0 THEN a
    ELSE IF k = 0 THEN <<>>
    ELSE BigMulPow(BigMulSmall(a, k, 0), k, n - 1)

RECURSIVE BigLeqFrom(_, _, _)
BigLeqFrom(a, b, i) ==
    IF i = 0 THEN TRUE
    ELSE IF a[i] # b[i] THEN a[i] < b[i]
    ELSE BigLeqFrom(a, b, i - 1)

BigLeq(a, b) ==
    IF Len(a) # Len(b) THEN Len(a) < Len(b) ELSE BigLeqFrom(a, b, Len(a))

\* P^10 <= Scale^3 * x^7, i.e. (P/Scale) <= (x/Scale)^0.7
PowLeq(p, x) == BigLeq(BigMulPow(<<1>>, p, 10), BigMulPow(BigMulPow(<<1>>, Scale, 3), x, 7))

RECURSIVE PowSearch(_, _, _)
PowSearch(x, lo, hi) ==
    IF lo >= hi THEN lo
    ELSE LET mid == (lo + hi + 1) \div 2
         IN  IF PowLeq(mid, x) THEN PowSearch(x, mid, hi) ELSE PowSearch(x, lo, mid - 1)

\* illumination_percent / 100.0, in millionths.
normalize(illumination_percent) == illumination_percent * (Scale \div 100)

\* x ** 0.7 in millionths, tabulated once for the normalized illuminations of
\* the domain (whole percents).
PowTable == [x \in {normalize(p) : p \in 0..MaxPercent} |-> PowSearch(x, 0, Scale)]

pow07(x) == PowTable[x]

\* round() replaced by a bare int(): the fraction is cut off.
round_truncate(total) == total \div Scale

\* Python's round(): to the nearest integer, a tie going to the even one.
round(total) ==
    LET q == total \div Scale
        r == total % Scale
    IN  IF 2 * r > Scale THEN q + 1
        ELSE IF 2 * r < Scale THEN q
        ELSE IF q % 2 = 0 THEN q ELSE q + 1

(***************************************************************************)
(* The enumerations.                                                       *)
(***************************************************************************)
CloudCover == {"CLEAR", "PARTLY_CLOUDY", "MOSTLY_CLOUDY", "OVERCAST"}

ViewingScore == {"EXCELLENT", "GOOD", "FAIR", "POOR", "NOT_RECOMMENDED"}

\* The thresholds compared with <= : 25, 50 and 75 fall in the band below.
from_percent_inclusive(percent) ==
    IF percent <= 25 THEN "CLEAR"
    ELSE IF percent <= 50 THEN "PARTLY_CLOUDY"
    ELSE IF percent <= 75 THEN "MOSTLY_CLOUDY"
    ELSE "OVERCAST"

from_percent(percent) ==
    IF percent < 25 THEN "CLEAR"
    ELSE IF percent < 50 THEN "PARTLY_CLOUDY"
    ELSE IF percent < 75 THEN "MOSTLY_CLOUDY"
    ELSE "OVERCAST"

\* The thresholds compared with > : 80, 60, 40 and 20 fall in the band below.
from_value_exclusive(value) ==
    IF value > 80 THEN "EXCELLENT"
    ELSE IF value > 60 THEN "GOOD"
    ELSE IF value > 40 THEN "FAIR"
    ELSE IF value > 20 THEN "POOR"
    ELSE "NOT_RECOMMENDED"

from_value(value) ==
    IF value >= 80 THEN "EXCELLENT"
    ELSE IF value >= 60 THEN "GOOD"
    ELSE IF value >= 40 THEN "FAIR"
    ELSE IF value >= 20 THEN "POOR"
    ELSE "NOT_RECOMMENDED"

(***************************************************************************)
(* The scoring functions.                                                  *)
(***************************************************************************)
\* is_moon_up ignored: the moon interferes from below the horizon too.
get_moon_interference_always_up(illumination_percent, is_moon_up) ==
    pow07(normalize(illumination_percent))

\* The guard inverted: no interference while the moon is up.
get_moon_interference_inverted(illumination_percent, is_moon_up) ==
    IF is_moon_up THEN 0
    ELSE pow07(normalize(illumination_percent))

\* The exponent dropped: interference linear in the illumination.
get_moon_interference_linear(illumination_percent, is_moon_up) ==
    IF ~is_moon_up THEN 0
    ELSE normalize(illumination_percent)

\* Interference in millionths.
get_moon_interference(illumination_percent, is_moon_up) ==
    IF ~is_moon_up THEN 0
    ELSE pow07(normalize(illumination_percent))

\* The inversion forgotten: more cloud scores higher.
cloud_score_uninverted(cloud_cover_percent) == cloud_cover_percent * Scale

\* The sub-scores, in millionths of a point.
cloud_score(cloud_cover_percent) == (100 - cloud_cover_percent) * Scale

\* The inversion forgotten: a brighter moon scores higher.
moon_score_uninverted(illumination_percent, is_moon_up) ==
    100 * get_moon_interference(illumination_percent, is_moon_up)

moon_score(illumination_percent, is_moon_up) ==
    100 * (Scale - get_moon_interference(illumination_percent, is_moon_up))

\* Full darkness scored above the scale.
darkness_score_above_scale(is_astronomical_night) ==
    IF is_astronomical_night THEN 150 * Scale ELSE 40 * Scale

\* No darkness credit outside astronomical night.
darkness_score_zero_by_day(is_astronomical_night) ==
    IF is_astronomical_night THEN 100 * Scale ELSE 0

darkness_score(is_astronomical_night) ==
    IF is_astronomical_night THEN 100 * Scale ELSE 40 * Scale

lp_score(light_pollution_factor) ==
    100 * ((LpUnit - light_pollution_factor) * (Scale \div LpUnit))

\* x * w for a weight w given in hundredths; every sub-score is a whole number
\* of hundredths of a point, so the product is exact.
weigh(x, w) == (x \div 100) * w

\* The moon weighted 0.35: the weights add up to 1.10.
weighted_total_overweight(cloud, moon, night, up, lp) ==
    weigh(cloud_score(cloud), 50)
    + weigh(moon_score(moon, up), 35)
    + weigh(darkness_score(night), 15)
    + weigh(lp_score(lp), 10)

\* cloud_score * 0.50 + moon_score * 0.25 + darkness_score * 0.15 + lp_score * 0.10
weighted_total(cloud, moon, night, up, lp) ==
    weigh(cloud_score(cloud), 50)
    + weigh(moon_score(moon, up), 25)
    + weigh(darkness_score(night), 15)
    + weigh(lp_score(lp), 10)

calculate_viewing_score(cloud, moon, night, up, lp) ==
    round(weighted_total(cloud, moon, night, up, lp))


(***************************************************************************)
(* get_twilight_type (darksky.py).  Sun altitudes are tenths of a degree.  *)
(***************************************************************************)
AltUnit == 10

MaxAltitude == 90

TwilightType == {"DAY", "CIVIL", "NAUTICAL", "ASTRONOMICAL", "NIGHT"}

\* The comparisons strict: a boundary altitude falls into the darker type.
get_twilight_type_strict(sun_altitude) ==
    IF sun_altitude > 0 THEN "DAY"
    ELSE IF sun_altitude > -6 * AltUnit THEN "CIVIL"
    ELSE IF sun_altitude > -12 * AltUnit THEN "NAUTICAL"
    ELSE IF sun_altitude > -18 * AltUnit THEN "ASTRONOMICAL"
    ELSE "NIGHT"

get_twilight_type(sun_altitude) ==
    IF sun_altitude >= 0 THEN "DAY"
    ELSE IF sun_altitude >= -6 * AltUnit THEN "CIVIL"
    ELSE IF sun_altitude >= -12 * AltUnit THEN "NAUTICAL"
    ELSE IF sun_altitude >= -18 * AltUnit THEN "ASTRONOMICAL"
    ELSE "NIGHT"

(***************************************************************************)
(* get_viewing_conditions and its helpers.                                 *)
(***************************************************************************)
HeavyCloud == "Heavy cloud cover - wait for clearer skies"
SignificantClouds == "Significant clouds - viewing may be intermittent"
SomeClouds == "Some clouds - find gaps for observing"
BrightMoon == "Bright moon - best for planets and the Moon itself"
MoonUp == "Moon is up - deep sky objects may be washed out"
DarkMoon == "Dark moon - great for galaxies and nebulae"
NotFullyDark == "Not fully dark - brighter objects only"
ExcellentDeepSky == "Excellent for deep sky observing!"

\* The darkness check moved to the top of the function.
_generate_recommendations_darkness_first(cloud, moon, night, up) ==
    (IF ~night THEN <<NotFullyDark>> ELSE <<>>)
    \o (IF cloud > 75 THEN <<HeavyCloud>>
        ELSE IF cloud > 50 THEN <<SignificantClouds>>
        ELSE IF cloud > 25 THEN <<SomeClouds>>
        ELSE <<>>)
    \o (IF moon > 80 /\ up THEN <<BrightMoon>>
        ELSE IF moon > 50 /\ up THEN <<MoonUp>>
        ELSE IF moon < 20 THEN <<DarkMoon>>
        ELSE <<>>)
    \o (IF cloud < 20 /\ moon < 30 THEN <<ExcellentDeepSky>> ELSE <<>>)

\* The cloud checks written as three separate ifs instead of an if/elif chain.
_generate_recommendations_all_clouds(cloud, moon, night, up) ==
    (IF cloud > 75 THEN <<HeavyCloud>> ELSE <<>>)
    \o (IF cloud > 50 THEN <<SignificantClouds>> ELSE <<>>)
    \o (IF cloud > 25 THEN <<SomeClouds>> ELSE <<>>)
    \o (IF moon > 80 /\ up THEN <<BrightMoon>>
        ELSE IF moon > 50 /\ up THEN <<MoonUp>>
        ELSE IF moon < 20 THEN <<DarkMoon>>
        ELSE <<>>)
    \o (IF ~night THEN <<NotFullyDark>> ELSE <<>>)
    \o (IF cloud < 20 /\ moon < 30 THEN <<ExcellentDeepSky>> ELSE <<>>)

\* is_moon_up left out of the moon checks.
_generate_recommendations_moon_any(cloud, moon, night, up) ==
    (IF cloud > 75 THEN <<HeavyCloud>>
     ELSE IF cloud > 50 THEN <<SignificantClouds>>
     ELSE IF cloud > 25 THEN <<SomeClouds>>
     ELSE <<>>)
    \o (IF moon > 80 THEN <<BrightMoon>>
        ELSE IF moon > 50 THEN <<MoonUp>>
        ELSE IF moon < 20 THEN <<DarkMoon>>
        ELSE <<>>)
    \o (IF ~night THEN <<NotFullyDark>> ELSE <<>>)
    \o (IF cloud < 20 /\ moon < 30 THEN <<ExcellentDeepSky>> ELSE <<>>)

\* The positive note chained to the darkness check with elif.
_generate_recommendations_chained(cloud, moon, night, up) ==
    (IF cloud > 75 THEN <<HeavyCloud>>
     ELSE IF cloud > 50 THEN <<SignificantClouds>>
     ELSE IF cloud > 25 THEN <<SomeClouds>>
     ELSE <<>>)
    \o (IF moon > 80 /\ up THEN <<BrightMoon>>
        ELSE IF moon > 50 /\ up THEN <<MoonUp>>
        ELSE IF moon < 20 THEN <<DarkMoon>>
        ELSE <<>>)
    \o (IF ~night THEN <<NotFullyDark>>
        ELSE IF cloud < 20 /\ moon < 30 THEN <<ExcellentDeepSky>>
        ELSE <<>>)

\* The positive note given up to 30% cloud, past the first cloud threshold.
_generate_recommendations_wide_positive(cloud, moon, night, up) ==
    (IF cloud > 75 THEN <<HeavyCloud>>
     ELSE IF cloud > 50 THEN <<SignificantClouds>>
     ELSE IF cloud > 25 THEN <<SomeClouds>>
     ELSE <<>>)
    \o (IF moon > 80 /\ up THEN <<BrightMoon>>
        ELSE IF moon > 50 /\ up THEN <<MoonUp>>
        ELSE IF moon < 20 THEN <<DarkMoon>>
        ELSE <<>>)
    \o (IF ~night THEN <<NotFullyDark>> ELSE <<>>)
    \o (IF cloud < 30 /\ moon < 30 THEN <<ExcellentDeepSky>> ELSE <<>>)

\* The cloud entries chosen by the bands of CloudCover.from_percent.
_generate_recommendations_category_bands(cloud, moon, night, up) ==
    (IF cloud >= 75 THEN <<HeavyCloud>>
     ELSE IF cloud >= 50 THEN <<SignificantClouds>>
     ELSE IF cloud >= 25 THEN <<SomeClouds>>
     ELSE <<>>)
    \o (IF moon > 80 /\ up THEN <<BrightMoon>>
        ELSE IF moon > 50 /\ up THEN <<MoonUp>>
        ELSE IF moon < 20 THEN <<DarkMoon>>
        ELSE <<>>)
    \o (IF ~night THEN <<NotFullyDark>> ELSE <<>>)
    \o (IF cloud < 20 /\ moon < 30 THEN <<ExcellentDeepSky>> ELSE <<>>)

\* The positive note given for a dark moon alone, whatever the cloud.
_generate_recommendations_positive_any_cloud(cloud, moon, night, up) ==
    (IF cloud > 75 THEN <<HeavyCloud>>
     ELSE IF cloud > 50 THEN <<SignificantClouds>>
     ELSE IF cloud > 25 THEN <<SomeClouds>>
     ELSE <<>>)
    \o (IF moon > 80 /\ up THEN <<BrightMoon>>
        ELSE IF moon > 50 /\ up THEN <<MoonUp>>
        ELSE IF moon < 20 THEN <<DarkMoon>>
        ELSE <<>>)
    \o (IF ~night THEN <<NotFullyDark>> ELSE <<>>)
    \o (IF moon < 30 THEN <<ExcellentDeepSky>> ELSE <<>>)

_generate_recommendations(cloud, moon, night, up) ==
    (IF cloud > 75 THEN <<HeavyCloud>>
     ELSE IF cloud > 50 THEN <<SignificantClouds>>
     ELSE IF cloud > 25 THEN <<SomeClouds>>
     ELSE <<>>)
    \o (IF moon > 80 /\ up THEN <<BrightMoon>>
        ELSE IF moon > 50 /\ up THEN <<MoonUp>>
        ELSE IF moon < 20 THEN <<DarkMoon>>
        ELSE <<>>)
    \o (IF ~night THEN <<NotFullyDark>> ELSE <<>>)
    \o (IF cloud < 20 /\ moon < 30 THEN <<ExcellentDeepSky>> ELSE <<>>)

summaries ==
    [s \in ViewingScore |->
        CASE s = "EXCELLENT" -> "Outstanding stargazing conditions"
          [] s = "GOOD" -> "Good conditions for astronomy"
          [] s = "FAIR" -> "Acceptable viewing with some limitations"
          [] s = "POOR" -> "Challenging conditions for observing"
          [] s = "NOT_RECOMMENDED" -> "Not suitable for stargazing"]

\* The cloud-cover checks in the wrong order: the overcast override is never
\* reached for its own category.
_generate_summary_no_override(score, cloud_cover) ==
    LET base == summaries[score]
    IN  IF cloud_cover \in {"MOSTLY_CLOUDY", "OVERCAST"}
        THEN base \o " - clouds may interfere"
        ELSE base

_generate_summary(score, cloud_cover) ==
    LET base == summaries[score]
    IN  IF cloud_cover = "OVERCAST"
        THEN "Overcast skies - wait for better conditions"
        ELSE IF cloud_cover = "MOSTLY_CLOUDY"
        THEN base \o " - clouds may interfere"
        ELSE base

\* The category taken from the total before it is rounded.
get_viewing_conditions_unrounded(cloud, moon, night, up, lp) ==
    LET numeric_score == calculate_viewing_score(cloud, moon, night, up, lp)
        score == from_value(weighted_total(cloud, moon, night, up, lp) \div Scale)
        cloud_cover == from_percent(cloud)
    IN  [score |-> score,
         numeric_score |-> numeric_score,
         cloud_cover |-> cloud_cover,
         moon_illumination_percent |-> round(moon * Scale),
         is_dark_sky |-> night /\ lp * 10 < 3 * LpUnit,
         summary |-> _generate_summary(score, cloud_cover),
         recommendations |-> _generate_recommendations(cloud, moon, night, up)]

\* light_pollution_factor compared with <= 0.3.
get_viewing_conditions_dark_inclusive(cloud, moon, night, up, lp) ==
    LET numeric_score == calculate_viewing_score(cloud, moon, night, up, lp)
        score == from_value(numeric_score)
        cloud_cover == from_percent(cloud)
    IN  [score |-> score,
         numeric_score |-> numeric_score,
         cloud_cover |-> cloud_cover,
         moon_illumination_percent |-> round(moon * Scale),
         is_dark_sky |-> night /\ lp * 10 <= 3 * LpUnit,
         summary |-> _generate_summary(score, cloud_cover),
         recommendations |-> _generate_recommendations(cloud, moon, night, up)]

get_viewing_conditions(cloud, moon, night, up, lp) ==
    LET numeric_score == calculate_viewing_score(cloud, moon, night, up, lp)
        score == from_value(numeric_score)
        cloud_cover == from_percent(cloud)
    IN  [score |-> score,
         numeric_score |-> numeric_score,
         cloud_cover |-> cloud_cover,
         moon_illumination_percent |-> round(moon * Scale),
         is_dark_sky |-> night /\ lp * 10 < 3 * LpUnit,
         summary |-> _generate_summary(score, cloud_cover),
         recommendations |-> _generate_recommendations(cloud, moon, night, up)]

(***************************************************************************)
(* The state: one invocation of a function of the module.  call names the  *)
(* function and holds its arguments, ret is what the call returned or      *)
(* raised.  frames holds the invocations of concurrent threads, one frame  *)
(* (position, arguments, local variables) per thread; it is empty when a   *)
(* single invocation is looked at.  heap holds the objects that outlive an *)
(* invocation, the lazily created clients; it is empty for the functions   *)
(* that create none.                                                       *)
(***************************************************************************)
VARIABLES pc, call, ret, frames, heap

vars == <<pc, call, ret, frames, heap>>

Percents == 0..MaxPercent

LightPollution == 0..LpUnit

NoReturn == [returned |-> FALSE]

Return(v) == [returned |-> TRUE, value |-> v]

Raise(e) == [returned |-> FALSE, raised |-> e]

\* The power taken through a logarithm: zero is an error as well.
total_is_complex_or_zero(moon, up) == up /\ moon <= 0

\* normalized ** 0.7 of a negative float is a complex number in Python; it is
\* carried through the sub-score and the weighted sum, and round() of a
\* complex total raises TypeError.
total_is_complex(moon, up) == up /\ moon < 0

\* How an invocation whose result would be v ends.
Outcome(moon, up, v) ==
    IF total_is_complex(moon, up) THEN Raise("TypeError") ELSE Return(v)

PcAfter(outcome) == IF outcome.returned THEN "return" ELSE "raise"

\* The documented domain of the five inputs of the two scoring entry points.
ScoreCalls ==
    [fn : {"calculate_viewing_score", "get_viewing_conditions"},
     cloud_cover_percent : Percents,
     moon_illumination_percent : Percents,
     is_astronomical_night : BOOLEAN,
     is_moon_up : BOOLEAN,
     light_pollution_factor : LightPollution]

MoonCalls ==
    [fn : {"get_moon_interference"},
     illumination_percent : Percents,
     is_moon_up : BOOLEAN]

FromValueCalls == [fn : {"from_value"}, value : Percents]

FromPercentCalls == [fn : {"from_percent"}, percent : Percents]

Altitudes == (-MaxAltitude * AltUnit)..(MaxAltitude * AltUnit)

TwilightCalls == [fn : {"get_twilight_type"}, sun_altitude : Altitudes]

Init ==
    /\ pc = "call"
    /\ call \in ScoreCalls \cup MoonCalls \cup FromValueCalls \cup FromPercentCalls
                \cup TwilightCalls
    /\ ret = NoReturn
    /\ frames = <<>>
    /\ heap = <<>>

FromPercent ==
    /\ pc = "call"
    /\ call.fn = "from_percent"
    /\ ret' = Return(from_percent(call.percent))
    /\ pc' = "return"
    /\ UNCHANGED <<call, frames, heap>>

FromValue ==
    /\ pc = "call"
    /\ call.fn = "from_value"
    /\ ret' = Return(from_value(call.value))
    /\ pc' = "return"
    /\ UNCHANGED <<call, frames, heap>>

GetMoonInterference ==
    /\ pc = "call"
    /\ call.fn = "get_moon_interference"
    /\ ret' = Return(get_moon_interference(call.illumination_percent, call.is_moon_up))
    /\ pc' = "return"
    /\ UNCHANGED <<call, frames, heap>>

CalculateViewingScore ==
    /\ pc = "call"
    /\ call.fn = "calculate_viewing_score"
    /\ ret' = Outcome(call.moon_illumination_percent, call.is_moon_up,
                      calculate_viewing_score(call.cloud_cover_percent,
                                              call.moon_illumination_percent,
                                              call.is_astronomical_night,
                                              call.is_moon_up,
                                              call.light_pollution_factor))
    /\ pc' = PcAfter(ret')
    /\ UNCHANGED <<call, frames, heap>>

GetViewingConditions ==
    /\ pc = "call"
    /\ call.fn = "get_viewing_conditions"
    /\ ret' = Outcome(call.moon_illumination_percent, call.is_moon_up,
                      get_viewing_conditions(call.cloud_cover_percent,
                                             call.moon_illumination_percent,
                                             call.is_astronomical_night,
                                             call.is_moon_up,
                                             call.light_pollution_factor))
    /\ pc' = PcAfter(ret')
    /\ UNCHANGED <<call, frames, heap>>

GetTwilightType ==
    /\ pc = "call"
    /\ call.fn = "get_twilight_type"
    /\ ret' = Return(get_twilight_type(call.sun_altitude))
    /\ pc' = "return"
    /\ UNCHANGED <<call, frames, heap>>

Next ==
    \/ FromPercent
    \/ FromValue
    \/ GetMoonInterference
    \/ CalculateViewingScore
    \/ GetViewingConditions
    \/ GetTwilightType

Spec == Init /\ [][Next]_vars

(***************************************************************************)
(* get_viewing_conditions called with well-typed arguments of which the    *)
(* moon illumination may lie below the documented domain.                  *)
(***************************************************************************)
WideCalls ==
    [fn : {"get_viewing_conditions"},
     cloud_cover_percent : Percents,
     moon_illumination_percent : (-MaxPercent)..MaxPercent,
     is_astronomical_night : BOOLEAN,
     is_moon_up : BOOLEAN,
     light_pollution_factor : LightPollution]

InitWide ==
    /\ pc = "call"
    /\ call \in WideCalls
    /\ ret = NoReturn
    /\ frames = <<>>
    /\ heap = <<>>

NextWide == GetViewingConditions

SpecWide == InitWide /\ [][NextWide]_vars

\* The call of function f has returned.
(***************************************************************************)
(* Concurrent invocations.  Every thread invokes one of the three scoring  *)
(* functions and runs it statement by statement; the steps of different    *)
(* threads interleave freely.  The functions assign local variables only:  *)
(* the module has no variable of its own besides the logger, which they do *)
(* not touch, and the enumerations are never written.                      *)
(***************************************************************************)
NumThreads == 2

Threads == 1..NumThreads

\* The locals a module-level variable would be: one set for all threads.
FrameOf_module_level(t) == 1

\* The frame that holds the local variables of thread t's invocation: a
\* Python call creates a fresh frame, so every invocation has its own.
FrameOf(t) == t

Local(t, name) == frames[FrameOf(t)].locals[name]

Arg(t) == frames[t].call

\* The invocations the threads make: both ends and the middle of the domains.
ThreadCalls ==
    [fn : {"get_moon_interference"},
     illumination_percent : {50},
     is_moon_up : BOOLEAN]
    \cup
    [fn : {"calculate_viewing_score", "get_viewing_conditions"},
     cloud_cover_percent : {0, 90},
     moon_illumination_percent : {100},
     is_astronomical_night : {TRUE},
     is_moon_up : BOOLEAN,
     light_pollution_factor : {2}]

FirstStatement(fn) ==
    CASE fn = "get_moon_interference" -> "is_moon_up"
      [] fn = "calculate_viewing_score" -> "cloud_score"
      [] fn = "get_viewing_conditions" -> "numeric_score"
      [] fn = "_load_tonight_data" -> "start"
      [] fn = "_on_close" -> "open"

NewFrame(c) == [pc |-> FirstStatement(c.fn), call |-> c, locals |-> <<>>, ret |-> NoReturn]

InitThreads ==
    /\ pc = "threads"
    /\ call = [fn |-> "threads"]
    /\ ret = NoReturn
    /\ frames \in [Threads -> {NewFrame(c) : c \in ThreadCalls}]
    /\ heap = <<>>

\* name = value, executed by thread t at statement at.
Assign(t, at, name, value, next) ==
    /\ frames[t].pc = at
    /\ frames' = [[frames EXCEPT ![FrameOf(t)].locals = (name :> value) @@ @]
                     EXCEPT ![t].pc = next]
    /\ UNCHANGED <<pc, call, ret, heap>>

\* return value, executed by thread t at statement at.
ReturnFrom(t, at, value) ==
    /\ frames[t].pc = at
    /\ frames' = [frames EXCEPT ![t].pc = "return", ![t].ret = Return(value)]
    /\ UNCHANGED <<pc, call, ret, heap>>

\* get_moon_interference: if not is_moon_up: return 0.0, else normalized = ...
GmiIsMoonUp(t) ==
    IF Arg(t).is_moon_up
    THEN Assign(t, "is_moon_up", "normalized", normalize(Arg(t).illumination_percent), "pow")
    ELSE ReturnFrom(t, "is_moon_up", 0)

GmiReturn(t) == ReturnFrom(t, "pow", pow07(Local(t, "normalized")))

\* calculate_viewing_score, one statement after the other.
CvsCloudScore(t) ==
    Assign(t, "cloud_score", "cloud_score",
           cloud_score(Arg(t).cloud_cover_percent), "moon_interference")

CvsMoonInterference(t) ==
    Assign(t, "moon_interference", "moon_interference",
           get_moon_interference(Arg(t).moon_illumination_percent, Arg(t).is_moon_up),
           "moon_score")

CvsMoonScore(t) ==
    Assign(t, "moon_score", "moon_score",
           100 * (Scale - Local(t, "moon_interference")), "darkness_score")

CvsDarknessScore(t) ==
    Assign(t, "darkness_score", "darkness_score",
           darkness_score(Arg(t).is_astronomical_night), "lp_score")

CvsLpScore(t) ==
    Assign(t, "lp_score", "lp_score",
           lp_score(Arg(t).light_pollution_factor), "total")

CvsTotal(t) ==
    Assign(t, "total", "total",
           weigh(Local(t, "cloud_score"), 50) + weigh(Local(t, "moon_score"), 25)
           + weigh(Local(t, "darkness_score"), 15) + weigh(Local(t, "lp_score"), 10),
           "round")

CvsReturn(t) == ReturnFrom(t, "round", round(Local(t, "total")))

\* get_viewing_conditions, one statement after the other.
GvcNumericScore(t) ==
    Assign(t, "numeric_score", "numeric_score",
           calculate_viewing_score(Arg(t).cloud_cover_percent,
                                   Arg(t).moon_illumination_percent,
                                   Arg(t).is_astronomical_night,
                                   Arg(t).is_moon_up,
                                   Arg(t).light_pollution_factor),
           "score")

GvcScore(t) ==
    Assign(t, "score", "score", from_value(Local(t, "numeric_score")), "cloud_cover")

GvcCloudCover(t) ==
    Assign(t, "cloud_cover", "cloud_cover",
           from_percent(Arg(t).cloud_cover_percent), "recommendations")

GvcRecommendations(t) ==
    Assign(t, "recommendations", "recommendations",
           _generate_recommendations(Arg(t).cloud_cover_percent,
                                     Arg(t).moon_illumination_percent,
                                     Arg(t).is_astronomical_night,
                                     Arg(t).is_moon_up),
           "summary")

GvcSummary(t) ==
    Assign(t, "summary", "summary",
           _generate_summary(Local(t, "score"), Local(t, "cloud_cover")),
           "ViewingConditions")

GvcReturn(t) ==
    ReturnFrom(t, "ViewingConditions",
               [score |-> Local(t, "score"),
                numeric_score |-> Local(t, "numeric_score"),
                cloud_cover |-> Local(t, "cloud_cover"),
                moon_illumination_percent |-> round(Arg(t).moon_illumination_percent * Scale),
                is_dark_sky |-> Arg(t).is_astronomical_night
                                /\ Arg(t).light_pollution_factor * 10 < 3 * LpUnit,
                summary |-> Local(t, "summary"),
                recommendations |-> Local(t, "recommendations")])

NextThreads ==
    \E t \in Threads :
        \/ GmiIsMoonUp(t)
        \/ GmiReturn(t)
        \/ CvsCloudScore(t)
        \/ CvsMoonInterference(t)
        \/ CvsMoonScore(t)
        \/ CvsDarknessScore(t)
        \/ CvsLpScore(t)
        \/ CvsTotal(t)
        \/ CvsReturn(t)
        \/ GvcNumericScore(t)
        \/ GvcScore(t)
        \/ GvcCloudCover(t)
        \/ GvcRecommendations(t)
        \/ GvcSummary(t)
        \/ GvcReturn(t)

SpecThreads == InitThreads /\ [][NextThreads]_vars

\* What an invocation returns when it is the only one.
Alone(c) ==
    CASE c.fn = "get_moon_interference" ->
             get_moon_interference(c.illumination_percent, c.is_moon_up)
      [] c.fn = "calculate_viewing_score" ->
             calculate_viewing_score(c.cloud_cover_percent, c.moon_illumination_percent,
                                     c.is_astronomical_night, c.is_moon_up,
                                     c.light_pollution_factor)
      [] c.fn = "get_viewing_conditions" ->
             get_viewing_conditions(c.cloud_cover_percent, c.moon_illumination_percent,
                                    c.is_astronomical_night, c.is_moon_up,
                                    c.light_pollution_factor)

(***************************************************************************)
(* ViewingClient.get_viewing_conditions_for_location (viewing.py) and the  *)
(* WeatherClient functions it calls (weather.py).  The answers of the      *)
(* weather service are inputs of the call: forecast is the answer to the   *)
(* two-day request of get_stargazing_conditions, current_forecast the      *)
(* answer to the one-day request of get_current_cloud_cover; each is None  *)
(* when the request failed (get_hourly_forecast catches every exception).  *)
(* A forecast is given by the cloud cover of its hours; cloud covers       *)
(* computed from a forecast are tenths of a percent.                       *)
(***************************************************************************)
None == [some |-> FALSE]

Some(v) == [some |-> TRUE, value |-> v]

CloudUnit == 10

RECURSIVE sum(_)
sum(values) == IF Len(values) = 0 THEN 0 ELSE Head(values) + sum(Tail(values))

\* The lowest of the values instead of their mean.
min_tenths(values) ==
    CloudUnit * (CHOOSE v \in {values[i] : i \in 1..Len(values)} :
                     \A i \in 1..Len(values) : v <= values[i])

\* round(sum(values) / len(values), 1), in tenths.
round_mean_tenths(values) ==
    LET n == Len(values)
        q == (sum(values) * CloudUnit) \div n
        r == (sum(values) * CloudUnit) % n
    IN  IF 2 * r > n THEN q + 1
        ELSE IF 2 * r < n THEN q
        ELSE IF q % 2 = 0 THEN q ELSE q + 1

\* dict.get(key): None, which is false, for a missing key.
Get(dict, key) == IF key \in DOMAIN dict THEN dict[key] ELSE FALSE

\* The nighttime figure taken from the clearest hour.
get_stargazing_conditions_clearest_hour(forecast) ==
    IF ~forecast.some THEN [available |-> FALSE]
    ELSE IF Len(forecast.value.nighttime) = 0
    THEN [available |-> TRUE, has_nighttime_data |-> FALSE]
    ELSE [available |-> TRUE, has_nighttime_data |-> TRUE,
          avg_cloud_cover_percent |-> min_tenths(forecast.value.nighttime)]

\* WeatherClient.get_stargazing_conditions
get_stargazing_conditions(forecast) ==
    IF ~forecast.some THEN [available |-> FALSE]
    ELSE IF Len(forecast.value.nighttime) = 0
    THEN [available |-> TRUE, has_nighttime_data |-> FALSE]
    ELSE [available |-> TRUE, has_nighttime_data |-> TRUE,
          avg_cloud_cover_percent |-> round_mean_tenths(forecast.value.nighttime)]

\* WeatherClient.get_current_cloud_cover: the hour that is now, the first
\* hour when none is, None without a forecast or without hours.
get_current_cloud_cover(forecast) ==
    IF forecast.some /\ Len(forecast.value.hourly) > 0
    THEN Some(IF forecast.value.now > 0
              THEN forecast.value.hourly[forecast.value.now]
              ELSE forecast.value.hourly[1])
    ELSE None

\* The moon taken to be below the horizon.
location_assessment_moon_down(cloud_cover, illumination_percent, light_pollution_factor) ==
    get_viewing_conditions(cloud_cover \div CloudUnit, illumination_percent,
                           TRUE, FALSE, light_pollution_factor)

\* The closing call of get_viewing_conditions_for_location: night and moon-up
\* are passed as True whatever the time and the moon's position.
location_assessment(cloud_cover, illumination_percent, light_pollution_factor) ==
    get_viewing_conditions(cloud_cover \div CloudUnit, illumination_percent,
                           TRUE, TRUE, light_pollution_factor)

\* The cloud covers of a forecast's hours.
HourSamples == {0, 50, 100}

Hours ==
    {<<>>} \cup {<<a>> : a \in HourSamples} \cup {<<a, b>> : a, b \in HourSamples}

Forecasts == {None} \cup {Some([nighttime |-> h]) : h \in Hours}

CurrentForecasts ==
    {None} \cup {Some([hourly |-> h, now |-> i]) : h \in Hours, i \in 0..2}

\* The light pollution the caller passes: both ends of the domain and both
\* sides of the dark-sky limit 0.3.
LocationLightPollution == {0, 2, 3, LpUnit}

\* Every mean is a whole percent, which is what the scoring operators take,
\* and now is an hour of the forecast (0: none of them).
LocationCalls ==
    {c \in [fn : {"get_viewing_conditions_for_location"},
            forecast : Forecasts,
            current_forecast : CurrentForecasts,
            moon_illumination_percent : Percents,
            light_pollution_factor : LocationLightPollution] :
        /\ c.forecast.some /\ Len(c.forecast.value.nighttime) > 0 =>
               round_mean_tenths(c.forecast.value.nighttime) % CloudUnit = 0
        /\ c.current_forecast.some =>
               c.current_forecast.value.now <= Len(c.current_forecast.value.hourly)}

InitLocation ==
    /\ pc = "call"
    /\ call \in LocationCalls
    /\ ret = NoReturn
    /\ frames = <<>>
    /\ heap = <<>>

\* The weather client has answered get_stargazing_conditions: the nighttime
\* average is taken when there is one, the default 0.0 stays otherwise.
GetStargazingConditions ==
    /\ pc = "call"
    /\ call.fn = "get_viewing_conditions_for_location"
    /\ LET stargazing_data == get_stargazing_conditions(call.forecast)
           nighttime == Get(stargazing_data, "available")
                        /\ Get(stargazing_data, "has_nighttime_data")
           next == IF ~nighttime /\ Get(stargazing_data, "available")
                   THEN "get_current_cloud_cover" ELSE "get_moon_info"
       IN  /\ pc' = next
           /\ frames' = <<[pc |-> next, call |-> call, ret |-> NoReturn,
                           locals |-> [stargazing_data |-> stargazing_data,
                                       cloud_cover |->
                                           IF nighttime
                                           THEN stargazing_data.avg_cloud_cover_percent
                                           ELSE 0]]>>
    /\ UNCHANGED <<call, ret, heap>>

\* The weather client has answered get_current_cloud_cover: its value
\* replaces the default unless it is None.
GetCurrentCloudCover ==
    /\ pc = "get_current_cloud_cover"
    /\ LET current_cloud == get_current_cloud_cover(call.current_forecast)
       IN  frames' = [frames EXCEPT
                         ![1].pc = "get_moon_info",
                         ![1].locals.cloud_cover =
                             IF current_cloud.some
                             THEN current_cloud.value * CloudUnit ELSE @]
    /\ pc' = "get_moon_info"
    /\ UNCHANGED <<call, ret, heap>>

\* The moon client has answered: the assessment is computed and returned.
GetMoonInfo ==
    /\ pc = "get_moon_info"
    /\ ret' = Return(location_assessment(frames[1].locals.cloud_cover,
                                         call.moon_illumination_percent,
                                         call.light_pollution_factor))
    /\ frames' = [frames EXCEPT ![1].pc = "return", ![1].ret = ret']
    /\ pc' = "return"
    /\ UNCHANGED <<call, heap>>

NextLocation ==
    \/ GetStargazingConditions
    \/ GetCurrentCloudCover
    \/ GetMoonInfo

SpecLocation == InitLocation /\ [][NextLocation]_vars

(***************************************************************************)
(* The tonight aggregator (tonight.py): get_summary asks its sources one   *)
(* after the other, the viewing conditions last, and writes the report.    *)
(* The answers of the services behind it are inputs of the call:           *)
(* cloud_cover_percent and moon_illumination_percent are what the viewing  *)
(* client resolved from the weather and the moon service, client_raises    *)
(* says that one of those services failed, moon_phase is the answer of the *)
(* aggregator's own moon source.  The ISS, planet, meteor and aurora       *)
(* sources answer with nothing.                                            *)
(***************************************************************************)
\* The values of the CloudCover members.
CloudCoverValue ==
    [c \in CloudCover |->
        CASE c = "CLEAR" -> "Clear skies"
          [] c = "PARTLY_CLOUDY" -> "Partly cloudy"
          [] c = "MOSTLY_CLOUDY" -> "Mostly cloudy"
          [] c = "OVERCAST" -> "Overcast"]

\* str.split(): the words of a member's value.
split(value) ==
    CASE value = "Clear skies" -> <<"Clear", "skies">>
      [] value = "Partly cloudy" -> <<"Partly", "cloudy">>
      [] value = "Mostly cloudy" -> <<"Mostly", "cloudy">>
      [] value = "Overcast" -> <<"Overcast">>

\* int(word): the number a decimal numeral denotes, ValueError for any other
\* word.
int(word) ==
    IF \E n \in Percents : ToString(n) = word
    THEN Return(CHOOSE n \in Percents : ToString(n) = word)
    ELSE Raise("ValueError")

\* str.lower() of a summary, each of which begins with its only capital
\* letter, and of the name of an aurora activity level.
lower(summary) ==
    LET names == [n \in {"QUIET", "UNSETTLED", "ACTIVE", "MINOR_STORM"} |->
                     CASE n = "QUIET" -> "quiet"
                       [] n = "UNSETTLED" -> "unsettled"
                       [] n = "ACTIVE" -> "active"
                       [] n = "MINOR_STORM" -> "minor_storm"]
        lowered == [sc \in ViewingScore |->
                       CASE sc = "EXCELLENT" -> "outstanding stargazing conditions"
                         [] sc = "GOOD" -> "good conditions for astronomy"
                         [] sc = "FAIR" -> "acceptable viewing with some limitations"
                         [] sc = "POOR" -> "challenging conditions for observing"
                         [] sc = "NOT_RECOMMENDED" -> "not suitable for stargazing"]
    IN  IF summary \in DOMAIN names THEN names[summary]
        ELSE IF summary = "Overcast skies - wait for better conditions"
        THEN "overcast skies - wait for better conditions"
        ELSE LET sc == CHOOSE x \in ViewingScore :
                           summary \in {summaries[x], summaries[x] \o " - clouds may interfere"}
             IN  IF summary = summaries[sc] THEN lowered[sc]
                 ELSE lowered[sc] \o " - clouds may interfere"

\* ViewingClient.get_viewing_conditions_for_location once cloud cover and
\* moon illumination are resolved: night and moon-up are assumed, the light
\* pollution is the default.
get_viewing_conditions_for_location(cloud_cover, illumination_percent, client_raises) ==
    IF client_raises THEN Raise("ClientError")
    ELSE Return(location_assessment(cloud_cover * CloudUnit, illumination_percent, 0))

\* TonightSummary._get_viewing_data: the tuple built from the client's
\* answer; any exception inside the try block gives (None, None, None).
_get_viewing_data(answer) ==
    LET cloud_cover == int(split(CloudCoverValue[answer.value.cloud_cover])[1])
    IN  IF answer.returned /\ cloud_cover.returned
        THEN <<Some(answer.value.numeric_score), Some(cloud_cover.value),
               Some(answer.value.summary)>>
        ELSE <<None, None, None>>

\* TonightData(): every field at its default.
TonightData ==
    [moon_phase |-> None, moon_illumination |-> None,
     moon_rise_time |-> None, moon_set_time |-> None,
     iss_passes |-> <<>>, visible_planets |-> <<>>, active_meteor_showers |-> <<>>,
     aurora_kp |-> None, aurora_activity |-> None,
     viewing_score |-> None, cloud_cover_percent |-> None,
     viewing_description |-> None, summary_text |-> None]

RECURSIVE join_with(_, _)
\* separator.join(parts)
join_with(separator, parts) ==
    IF Len(parts) = 0 THEN ""
    ELSE IF Len(parts) = 1 THEN parts[1]
    ELSE parts[1] \o separator \o join_with(separator, Tail(parts))

\* The sentences of generate_summary_text, in order.
summary_parts(data) ==
    LET moon ==
            IF data.moon_phase.some
            THEN <<data.moon_phase.value
                   \o (IF data.moon_illumination.some
                       THEN " (" \o ToString(data.moon_illumination.value) \o "% illuminated)"
                       ELSE "")
                   \o (IF data.moon_rise_time.some
                       THEN " rises at " \o data.moon_rise_time.value
                       ELSE IF data.moon_set_time.some
                       THEN " sets at " \o data.moon_set_time.value
                       ELSE "")
                   \o ".">>
            ELSE <<>>
        iss ==
            IF Len(data.iss_passes) = 0 THEN <<>>
            ELSE IF Len(data.iss_passes) = 1
            THEN <<"The ISS passes over at " \o data.iss_passes[1] \o ".">>
            ELSE <<"The ISS has " \o ToString(Len(data.iss_passes))
                   \o " visible passes tonight.">>
        planets ==
            LET n == Len(data.visible_planets)
            IN  IF n = 0 THEN <<>>
                ELSE IF n = 1 THEN <<data.visible_planets[1] \o " is visible in the sky.">>
                ELSE IF n = 2
                THEN <<data.visible_planets[1] \o " and " \o data.visible_planets[2]
                       \o " are visible in the evening sky.">>
                ELSE <<join_with(", ", SubSeq(data.visible_planets, 1, n - 1))
                       \o ", and " \o data.visible_planets[n] \o " are visible tonight.">>
        meteors ==
            LET n == Len(data.active_meteor_showers)
            IN  IF n = 0 THEN <<>>
                ELSE IF n = 1
                THEN <<"The " \o data.active_meteor_showers[1] \o " meteor shower is active.">>
                ELSE <<"The " \o join_with(" and ", SubSeq(data.active_meteor_showers, 1, 2))
                       \o " meteor showers are active.">>
        aurora ==
            IF data.aurora_kp.some /\ data.aurora_kp.value >= 4
            THEN <<"Aurora activity is "
                   \o (IF data.aurora_activity.some
                       THEN lower(data.aurora_activity.value) ELSE "elevated")
                   \o " (Kp " \o ToString(data.aurora_kp.value) \o ").">>
            ELSE IF data.aurora_kp.some /\ data.aurora_kp.value >= 3
            THEN <<"Aurora may be visible at high latitudes.">>
            ELSE <<>>
        condition ==
            IF data.viewing_score.value >= 80 THEN "excellent"
            ELSE IF data.viewing_score.value >= 60 THEN "good"
            ELSE IF data.viewing_score.value >= 40 THEN "fair"
            ELSE "poor"
        condition_str ==
            "Viewing conditions are " \o condition
            \o " (" \o ToString(data.viewing_score.value) \o "/100)"
        sky ==
            IF data.cloud_cover_percent.some /\ data.cloud_cover_percent.value >= 50
            THEN IF data.cloud_cover_percent.value >= 75
                 THEN " with overcast skies" ELSE " with partly cloudy skies"
            ELSE IF data.viewing_description.some
            THEN " - " \o lower(data.viewing_description.value)
            ELSE ""
        viewing ==
            IF data.viewing_score.some THEN <<condition_str \o sky \o ".">> ELSE <<>>
        parts == <<"Tonight:">> \o moon \o iss \o planets \o meteors \o aurora \o viewing
    IN  IF Len(parts) = 1
        THEN parts \o <<"Sky data is currently unavailable. Please check back later.">>
        ELSE parts

\* " ".join(parts)
join(parts) == join_with(" ", parts)

generate_summary_text(data) == join(summary_parts(data))

MoonPhases == {None, Some("Waxing Gibbous")}

TonightCalls ==
    [fn : {"get_summary"},
     moon_phase : MoonPhases,
     cloud_cover_percent : Percents,
     moon_illumination_percent : Percents,
     client_raises : BOOLEAN]

InitTonight ==
    /\ pc = "call"
    /\ call \in TonightCalls
    /\ ret = NoReturn
    /\ frames = <<>>
    /\ heap = <<>>

\* get_summary up to the point where it waits for the viewing client: the
\* moon source has answered and its data is stored.
GetSummaryMoon ==
    /\ pc = "call"
    /\ call.fn = "get_summary"
    /\ pc' = "_get_viewing_data"
    /\ frames' = <<[pc |-> "_get_viewing_data", call |-> call, ret |-> NoReturn,
                    locals |-> [data |-> [TonightData EXCEPT
                                             !.moon_phase = call.moon_phase,
                                             !.moon_illumination =
                                                 IF call.moon_phase.some
                                                 THEN Some(call.moon_illumination_percent)
                                                 ELSE None]]]>>
    /\ UNCHANGED <<call, ret, heap>>

\* The viewing client has answered: _get_viewing_data builds its tuple,
\* get_summary stores it, generates the text and returns the data.
GetSummaryViewing ==
    /\ pc = "_get_viewing_data"
    /\ LET conditions == get_viewing_conditions_for_location(call.cloud_cover_percent,
                                                             call.moon_illumination_percent,
                                                             call.client_raises)
           viewing_data == _get_viewing_data(conditions)
           stored == [frames[1].locals.data EXCEPT
                         !.viewing_score = viewing_data[1],
                         !.cloud_cover_percent = viewing_data[2],
                         !.viewing_description = viewing_data[3]]
           data == [stored EXCEPT !.summary_text = Some(generate_summary_text(stored))]
       IN  /\ ret' = Return(data)
           /\ frames' = <<[pc |-> "return", call |-> call, ret |-> Return(data),
                           locals |-> [data |-> data,
                                       conditions |-> conditions,
                                       viewing_data |-> viewing_data,
                                       parts |-> summary_parts(stored)]]>>
    /\ pc' = "return"
    /\ UNCHANGED <<call, heap>>

NextTonight ==
    \/ GetSummaryMoon
    \/ GetSummaryViewing

SpecTonight == InitTonight /\ [][NextTonight]_vars

(***************************************************************************)
(* get_summary with its six fetchers as the inputs of the call: each of    *)
(* _get_moon_data, _get_iss_data, _get_planets_data, _get_meteor_data,     *)
(* _get_aurora_data and _get_viewing_data either returns its values or     *)
(* raises, and get_summary runs one try block per fetcher.  Kp indices are *)
(* whole numbers.                                                          *)
(***************************************************************************)
Failed == Raise("Exception")

MoonOutcomes ==
    {Failed, Return(<<None, None, None, None>>),
     Return(<<Some("Full Moon"), Some(100), None, None>>)}

IssOutcomes ==
    {Failed, Return(<<>>), Return(<<"21:15 for 5 minutes">>),
     Return(<<"19:40 for 4 minutes", "21:15 for 5 minutes">>)}

PlanetOutcomes ==
    {Failed, Return(<<>>), Return(<<"Jupiter">>), Return(<<"Jupiter", "Saturn">>),
     Return(<<"Venus", "Jupiter", "Saturn">>)}

MeteorOutcomes ==
    {Failed, Return(<<>>), Return(<<"Perseids">>), Return(<<"Perseids", "Delta Aquariids">>)}

AuroraOutcomes ==
    {Failed, Return(<<None, None>>), Return(<<Some(1), Some("QUIET")>>),
     Return(<<Some(3), Some("UNSETTLED")>>), Return(<<Some(5), Some("MINOR_STORM")>>)}

ViewingOutcomes ==
    {Failed, Return(<<None, None, None>>),
     Return(<<Some(72), Some(25), Some("Good conditions for astronomy")>>),
     Return(<<Some(35), Some(80), Some("Overcast skies - wait for better conditions")>>)}

SourceCalls ==
    [fn : {"get_summary"},
     moon : MoonOutcomes, iss : IssOutcomes, planets : PlanetOutcomes,
     meteors : MeteorOutcomes, aurora : AuroraOutcomes, viewing : ViewingOutcomes]

InitSources ==
    /\ pc = "call"
    /\ call \in SourceCalls
    /\ ret = NoReturn
    /\ frames = <<>>
    /\ heap = <<>>

\* A failure throws away what the earlier sources delivered.
after_try_reset(data, outcome, stored) ==
    IF outcome.returned THEN stored ELSE TonightData

\* try: <the assignments giving stored> except Exception: <log>: the data
\* after the block.
after_try(data, outcome, stored) ==
    IF outcome.returned THEN stored ELSE data

\* One try block of get_summary: the fetcher has answered.
TryBlock(at, data, outcome, stored, next) ==
    /\ pc = at
    /\ pc' = next
    /\ frames' = <<[pc |-> next, call |-> call, ret |-> NoReturn,
                    locals |-> [data |-> after_try(data, outcome, stored)]]>>
    /\ UNCHANGED <<call, ret, heap>>

FetchMoon ==
    /\ call.fn = "get_summary"
    /\ "moon" \in DOMAIN call
    /\ TryBlock("call", TonightData, call.moon,
                [TonightData EXCEPT !.moon_phase = call.moon.value[1],
                                    !.moon_illumination = call.moon.value[2],
                                    !.moon_rise_time = call.moon.value[3],
                                    !.moon_set_time = call.moon.value[4]],
                "_get_iss_data")

FetchIss ==
    TryBlock("_get_iss_data", frames[1].locals.data, call.iss,
             [frames[1].locals.data EXCEPT !.iss_passes = call.iss.value],
             "_get_planets_data")

FetchPlanets ==
    TryBlock("_get_planets_data", frames[1].locals.data, call.planets,
             [frames[1].locals.data EXCEPT !.visible_planets = call.planets.value],
             "_get_meteor_data")

FetchMeteors ==
    TryBlock("_get_meteor_data", frames[1].locals.data, call.meteors,
             [frames[1].locals.data EXCEPT !.active_meteor_showers = call.meteors.value],
             "_get_aurora_data")

FetchAurora ==
    TryBlock("_get_aurora_data", frames[1].locals.data, call.aurora,
             [frames[1].locals.data EXCEPT !.aurora_kp = call.aurora.value[1],
                                           !.aurora_activity = call.aurora.value[2]],
             "_get_viewing_data")

\* The last try block, then the summary text and the return.
FetchViewing ==
    /\ pc = "_get_viewing_data"
    /\ "viewing" \in DOMAIN call
    /\ LET stored == after_try(frames[1].locals.data, call.viewing,
                               [frames[1].locals.data EXCEPT
                                   !.viewing_score = call.viewing.value[1],
                                   !.cloud_cover_percent = call.viewing.value[2],
                                   !.viewing_description = call.viewing.value[3]])
           data == [stored EXCEPT !.summary_text = Some(generate_summary_text(stored))]
       IN  /\ ret' = Return(data)
           /\ frames' = <<[pc |-> "return", call |-> call, ret |-> Return(data),
                           locals |-> [data |-> data, parts |-> summary_parts(stored)]]>>
    /\ pc' = "return"
    /\ UNCHANGED <<call, heap>>

NextSources ==
    \/ FetchMoon
    \/ FetchIss
    \/ FetchPlanets
    \/ FetchMeteors
    \/ FetchAurora
    \/ FetchViewing

SpecSources == InitSources /\ [][NextSources]_vars

(***************************************************************************)
(* The lazily created clients under the window's threads.  MainWindow      *)
(* holds one TonightSummary, tonight_client.  _load_all_data starts a      *)
(* thread that runs _load_tonight_data and every _on_refresh_tonight       *)
(* starts another; each of them runs get_summary on that one object in an  *)
(* event loop of its own (run_async).  The getters are coroutines without  *)
(* an await, so one loop runs a getter in one piece, but the threads of    *)
(* different loops switch between its statements: the test of the field,   *)
(* the construction, the store into the field and the read of the field    *)
(* for the return.  _on_close runs close() on the main thread, which also  *)
(* runs the two handlers that start the threads.  The five other getters   *)
(* of TonightSummary have the shape of _get_viewing_client and are left    *)
(* out, as are the requests, which change none of these fields.            *)
(***************************************************************************)
MainThread == 0

\* heap[1] is the window's TonightSummary; the clients follow in the order
\* of their construction.
Tonight == 1

Object(class, owner, attrs) ==
    [class |-> class, owner |-> owner, attrs |-> attrs, closed |-> FALSE]

\* __init__ of the three classes that hold lazily created clients.
New(class, owner) ==
    CASE class = "TonightSummary" -> Object(class, owner, "_viewing_client" :> None)
      [] class = "ViewingClient" ->
             Object(class, owner, ("_weather_client" :> None) @@ ("_moon_client" :> None))
      [] OTHER -> Object(class, owner, <<>>)

ClientCalls == [fn : {"MainWindow"}, location : {None, Some("location")}]

InitClients ==
    /\ pc = "window"
    /\ call \in ClientCalls
    /\ ret = NoReturn
    /\ frames = [t \in {MainThread} \cup Threads |->
                    IF t = MainThread THEN NewFrame([fn |-> "_on_close"])
                    ELSE NewFrame([fn |-> "_load_tonight_data"])]
    /\ heap = <<New("TonightSummary", MainThread)>>

\* if self.<attr> is None
FieldIsNone(self, attr) == heap[self].attrs[attr] = None

\* The main thread starts thread t (_load_all_data for the first, a click on
\* Refresh for the others), and t enters _load_tonight_data: without a
\* location it returns at once, with one it runs get_summary up to
\* _get_viewing_client.
LoadTonightData(t) ==
    /\ frames[MainThread].pc = "open"
    /\ frames[t].pc = "start"
    /\ frames' = [frames EXCEPT ![t].pc = IF call.location = None THEN "return"
                                          ELSE "_get_viewing_client",
                                ![t].ret = IF call.location = None THEN Return(None)
                                           ELSE NoReturn]
    /\ UNCHANGED <<pc, call, ret, heap>>

\* if self.<attr> is None, in thread t at the getter named at, self being
\* the object the getter is called on.
GetterTest(t, at, self, attr) ==
    /\ frames[t].pc = at
    /\ frames' = [frames EXCEPT ![t].pc = IF FieldIsNone(self, attr)
                                          THEN at \o ":construct"
                                          ELSE at \o ":return"]
    /\ UNCHANGED <<pc, call, ret, heap>>

\* The right-hand side of self.<attr> = <class>(timeout=self.timeout).
GetterConstruct(t, at, self, class) ==
    /\ frames[t].pc = at \o ":construct"
    /\ heap' = Append(heap, New(class, self))
    /\ frames' = [frames EXCEPT ![t].pc = at \o ":store",
                                ![t].locals = ("new" :> Len(heap) + 1) @@ @]
    /\ UNCHANGED <<pc, call, ret>>

\* The store of self.<attr> = <class>(timeout=self.timeout).
GetterStore(t, at, self, attr) ==
    /\ frames[t].pc = at \o ":store"
    /\ heap' = [heap EXCEPT ![self].attrs[attr] = Some(Local(t, "new"))]
    /\ frames' = [frames EXCEPT ![t].pc = at \o ":return"]
    /\ UNCHANGED <<pc, call, ret>>

\* return self.<attr>, assigned to the caller's variable name.
GetterReturn(t, at, self, attr, name, next) ==
    Assign(t, at \o ":return", name, heap[self].attrs[attr].value, next)

\* TonightSummary._get_viewing_client, called by _get_viewing_data.
GetViewingClientTest(t) == GetterTest(t, "_get_viewing_client", Tonight, "_viewing_client")

GetViewingClientConstruct(t) ==
    GetterConstruct(t, "_get_viewing_client", Tonight, "ViewingClient")

GetViewingClientStore(t) == GetterStore(t, "_get_viewing_client", Tonight, "_viewing_client")

GetViewingClientReturn(t) ==
    GetterReturn(t, "_get_viewing_client", Tonight, "_viewing_client", "client",
                 "_get_weather_client")

\* ViewingClient._get_weather_client, called by
\* get_viewing_conditions_for_location on the client the thread was given.
GetWeatherClientTest(t) ==
    /\ frames[t].pc = "_get_weather_client"
    /\ GetterTest(t, "_get_weather_client", Local(t, "client"), "_weather_client")

GetWeatherClientConstruct(t) ==
    /\ frames[t].pc = "_get_weather_client:construct"
    /\ GetterConstruct(t, "_get_weather_client", Local(t, "client"), "WeatherClient")

GetWeatherClientStore(t) ==
    /\ frames[t].pc = "_get_weather_client:store"
    /\ GetterStore(t, "_get_weather_client", Local(t, "client"), "_weather_client")

GetWeatherClientReturn(t) ==
    /\ frames[t].pc = "_get_weather_client:return"
    /\ GetterReturn(t, "_get_weather_client", Local(t, "client"), "_weather_client",
                    "weather_client", "_get_moon_client")

\* ViewingClient._get_moon_client, called after the weather has answered.
GetMoonClientTest(t) ==
    /\ frames[t].pc = "_get_moon_client"
    /\ GetterTest(t, "_get_moon_client", Local(t, "client"), "_moon_client")

GetMoonClientConstruct(t) ==
    /\ frames[t].pc = "_get_moon_client:construct"
    /\ GetterConstruct(t, "_get_moon_client", Local(t, "client"), "MoonClient")

GetMoonClientStore(t) ==
    /\ frames[t].pc = "_get_moon_client:store"
    /\ GetterStore(t, "_get_moon_client", Local(t, "client"), "_moon_client")

GetMoonClientReturn(t) ==
    /\ frames[t].pc = "_get_moon_client:return"
    /\ GetterReturn(t, "_get_moon_client", Local(t, "client"), "_moon_client",
                    "moon_client", "get_summary")

\* The rest of get_summary and of _load_tonight_data: the data goes to the
\* window, the thread ends.
LoadTonightDataReturn(t) == ReturnFrom(t, "get_summary", None)

\* await <client>.close() for the client a field holds, if it holds one.
closed_after(objects, field) ==
    IF field = None THEN objects
    ELSE [objects EXCEPT ![field.value].closed = TRUE]

\* _on_close, TonightSummary.close: if self._viewing_client: await
\* self._viewing_client.close().
OnClose ==
    /\ frames[MainThread].pc = "open"
    /\ LET field == heap[Tonight].attrs["_viewing_client"]
       IN  /\ heap' = closed_after(heap, field)
           /\ frames' = [frames EXCEPT
                  ![MainThread].pc = IF field = None THEN "return"
                                     ELSE "ViewingClient.close",
                  ![MainThread].ret = IF field = None THEN Return(None) ELSE NoReturn,
                  ![MainThread].locals = IF field = None THEN @
                                         ELSE ("self" :> field.value) @@ @]
    /\ UNCHANGED <<pc, call, ret>>

\* ViewingClient.close: if self._weather_client: await
\* self._weather_client.close().
ViewingClientCloseWeather ==
    /\ frames[MainThread].pc = "ViewingClient.close"
    /\ heap' = closed_after(heap, heap[Local(MainThread, "self")].attrs["_weather_client"])
    /\ frames' = [frames EXCEPT ![MainThread].pc = "ViewingClient.close:moon"]
    /\ UNCHANGED <<pc, call, ret>>

\* ViewingClient.close: if self._moon_client: await self._moon_client.close().
ViewingClientCloseMoon ==
    /\ frames[MainThread].pc = "ViewingClient.close:moon"
    /\ heap' = closed_after(heap, heap[Local(MainThread, "self")].attrs["_moon_client"])
    /\ frames' = [frames EXCEPT ![MainThread].pc = "return",
                                ![MainThread].ret = Return(None)]
    /\ UNCHANGED <<pc, call, ret>>

NextClients ==
    \/ \E t \in Threads :
           \/ LoadTonightData(t)
           \/ GetViewingClientTest(t)
           \/ GetViewingClientConstruct(t)
           \/ GetViewingClientStore(t)
           \/ GetViewingClientReturn(t)
           \/ GetWeatherClientTest(t)
           \/ GetWeatherClientConstruct(t)
           \/ GetWeatherClientStore(t)
           \/ GetWeatherClientReturn(t)
           \/ GetMoonClientTest(t)
           \/ GetMoonClientConstruct(t)
           \/ GetMoonClientStore(t)
           \/ GetMoonClientReturn(t)
           \/ LoadTonightDataReturn(t)
    \/ OnClose
    \/ ViewingClientCloseWeather
    \/ ViewingClientCloseMoon

SpecClients == InitClients /\ [][NextClients]_vars

Returned(f) == pc = "return" /\ call.fn = f

(***************************************************************************)
(* The claims.                                                             *)
(***************************************************************************)
\* The score the call in progress would get with other arguments.
ScoreWith(cloud, moon, up) ==
    calculate_viewing_score(cloud, moon, call.is_astronomical_night, up,
                            call.light_pollution_factor)

\* C1: for every input inside the documented domains calculate_viewing_score
\* returns an integer in 0..100, and so is the numeric_score of every
\* assessment get_viewing_conditions returns.
C1_ScoreWithinBounds ==
    /\ Returned("calculate_viewing_score") => ret.value \in 0..100
    /\ Returned("get_viewing_conditions") => ret.value.numeric_score \in 0..100

\* C1 witness: an assessment with the highest score has been returned.
C1_Witness ==
    /\ Returned("get_viewing_conditions")
    /\ ret.value.numeric_score = 100

\* The weighted sum of C2 in millionths, written out from the arguments:
\* 0.50*(100 - cloud) + 0.25*100*(1 - interference) + 0.15*(100 or 40)
\* + 0.10*100*(1 - pollution).
C2_Sum ==
    ((100 - call.cloud_cover_percent) * Scale) \div 2
    + 25 * (Scale - get_moon_interference(call.moon_illumination_percent, call.is_moon_up))
    + (IF call.is_astronomical_night THEN 15 ELSE 6) * Scale
    + (LpUnit - call.light_pollution_factor) * ((10 * Scale) \div LpUnit)

\* C2: calculate_viewing_score returns the weighted sum rounded to an integer
\* (it is an integer at most one half away from the sum); it returns 100 for
\* (cloud 0, moon 0, night, moon up, pollution 0) and 6 for (cloud 100,
\* moon 100, not night, moon up, pollution 1).
C2_WeightedSumRounded ==
    Returned("calculate_viewing_score") =>
        /\ ret.value \in Int
        /\ 2 * (ret.value * Scale - C2_Sum) <= Scale
        /\ 2 * (C2_Sum - ret.value * Scale) <= Scale
        /\ (/\ call.cloud_cover_percent = 0
            /\ call.moon_illumination_percent = 0
            /\ call.is_astronomical_night
            /\ call.is_moon_up
            /\ call.light_pollution_factor = 0) => ret.value = 100
        /\ (/\ call.cloud_cover_percent = 100
            /\ call.moon_illumination_percent = 100
            /\ ~call.is_astronomical_night
            /\ call.is_moon_up
            /\ call.light_pollution_factor = LpUnit) => ret.value = 6

\* C2 witness: the worst in-domain call has returned 6.
C2_Witness ==
    /\ Returned("calculate_viewing_score")
    /\ call.cloud_cover_percent = 100
    /\ call.moon_illumination_percent = 100
    /\ ~call.is_astronomical_night
    /\ call.is_moon_up
    /\ call.light_pollution_factor = LpUnit
    /\ ret.value = 6

\* The categories from worst to best.
Rank(category) ==
    CASE category = "NOT_RECOMMENDED" -> 0
      [] category = "POOR" -> 1
      [] category = "FAIR" -> 2
      [] category = "GOOD" -> 3
      [] category = "EXCELLENT" -> 4

\* C3: from_value is a step function with inclusive lower bounds (80, 60, 40
\* and 20 fall in the higher band, 79, 59, 39 and 19 in the lower one), and
\* the category never gets worse when the value increases.
C3_FromValueSteps ==
    Returned("from_value") =>
        /\ ret.value = "EXCELLENT" <=> call.value >= 80
        /\ ret.value = "GOOD" <=> (60 <= call.value /\ call.value < 80)
        /\ ret.value = "FAIR" <=> (40 <= call.value /\ call.value < 60)
        /\ ret.value = "POOR" <=> (20 <= call.value /\ call.value < 40)
        /\ ret.value = "NOT_RECOMMENDED" <=> call.value < 20
        /\ \A higher \in Percents :
              higher >= call.value => Rank(from_value(higher)) >= Rank(ret.value)

\* C3 witness: from_value(80) has returned EXCELLENT.
C3_Witness ==
    /\ Returned("from_value")
    /\ call.value = 80
    /\ ret.value = "EXCELLENT"

\* C4: from_percent maps percent < 25 to CLEAR, 25 <= percent < 50 to
\* PARTLY_CLOUDY, 50 <= percent < 75 to MOSTLY_CLOUDY and percent >= 75 to
\* OVERCAST, so that 25, 50 and 75 fall in the cloudier band.
C4_FromPercentSteps ==
    Returned("from_percent") =>
        /\ ret.value = "CLEAR" <=> call.percent < 25
        /\ ret.value = "PARTLY_CLOUDY" <=> (25 <= call.percent /\ call.percent < 50)
        /\ ret.value = "MOSTLY_CLOUDY" <=> (50 <= call.percent /\ call.percent < 75)
        /\ ret.value = "OVERCAST" <=> call.percent >= 75

\* C4 witness: from_percent(25) has returned PARTLY_CLOUDY.
C4_Witness ==
    /\ Returned("from_percent")
    /\ call.percent = 25
    /\ ret.value = "PARTLY_CLOUDY"

\* C5: in every assessment get_viewing_conditions returns, score is the
\* category of numeric_score and cloud_cover is the category of the
\* cloud_cover_percent argument.
C5_CategoriesConsistent ==
    Returned("get_viewing_conditions") =>
        LET a == ret.value
            n == a.numeric_score
            c == call.cloud_cover_percent
        IN  /\ a.score = (IF n >= 80 THEN "EXCELLENT"
                          ELSE IF n >= 60 THEN "GOOD"
                          ELSE IF n >= 40 THEN "FAIR"
                          ELSE IF n >= 20 THEN "POOR"
                          ELSE "NOT_RECOMMENDED")
            /\ a.cloud_cover = (IF c < 25 THEN "CLEAR"
                                ELSE IF c < 50 THEN "PARTLY_CLOUDY"
                                ELSE IF c < 75 THEN "MOSTLY_CLOUDY"
                                ELSE "OVERCAST")

\* C5 witness: an assessment on both boundaries, score 80 with 25% cloud,
\* reached by rounding the total up.
C5_Witness ==
    /\ Returned("get_viewing_conditions")
    /\ ret.value.numeric_score = 80
    /\ ret.value.score = "EXCELLENT"
    /\ call.cloud_cover_percent = 25
    /\ ret.value.cloud_cover = "PARTLY_CLOUDY"
    /\ weighted_total(call.cloud_cover_percent, call.moon_illumination_percent,
                      call.is_astronomical_night, call.is_moon_up,
                      call.light_pollution_factor) < 80 * Scale

\* C6: with the other inputs fixed, more cloud never gives a higher score.
C6_MonotoneInCloud ==
    Returned("calculate_viewing_score") =>
        \A cloudier \in Percents :
            cloudier >= call.cloud_cover_percent =>
                ScoreWith(cloudier, call.moon_illumination_percent, call.is_moon_up)
                    <= ret.value

\* C6 witness: a call whose total is a tie (98.5 rounds to 98) and for which
\* one more percent of cloud gives the same score.
C6_Witness ==
    /\ Returned("calculate_viewing_score")
    /\ call.cloud_cover_percent = 3
    /\ 2 * weighted_total(call.cloud_cover_percent, call.moon_illumination_percent,
                          call.is_astronomical_night, call.is_moon_up,
                          call.light_pollution_factor) = 197 * Scale
    /\ ret.value = 98
    /\ ScoreWith(4, call.moon_illumination_percent, call.is_moon_up) = 98

\* C7: with the moon up and the other inputs fixed, a more illuminated moon
\* never gives a higher score.
C7_MonotoneInMoon ==
    (Returned("calculate_viewing_score") /\ call.is_moon_up) =>
        \A brighter \in Percents :
            brighter >= call.moon_illumination_percent =>
                ScoreWith(call.cloud_cover_percent, brighter, TRUE) <= ret.value

\* C7 witness: a call with the moon up for which the full moon scores lower.
C7_Witness ==
    /\ Returned("calculate_viewing_score")
    /\ call.is_moon_up
    /\ call.moon_illumination_percent = 50
    /\ ScoreWith(call.cloud_cover_percent, 100, TRUE) < ret.value

\* C8: with the moon down get_moon_interference returns 0.0 for every
\* illumination, the moon sub-score is 100, and calculate_viewing_score does
\* not depend on the illumination.
C8_MoonDownNoInterference ==
    /\ (Returned("get_moon_interference") /\ ~call.is_moon_up) => ret.value = 0
    /\ (Returned("calculate_viewing_score") /\ ~call.is_moon_up) =>
          /\ moon_score(call.moon_illumination_percent, call.is_moon_up) = 100 * Scale
          /\ \A other \in Percents :
                ScoreWith(call.cloud_cover_percent, other, FALSE) = ret.value

\* C8 witness: a full moon below the horizon leaves the score at 100.
C8_Witness ==
    /\ Returned("calculate_viewing_score")
    /\ ~call.is_moon_up
    /\ call.moon_illumination_percent = 100
    /\ ret.value = 100

\* C9: with the moon up get_moon_interference returns 0.0 at illumination 0,
\* 1.0 at illumination 100, stays within [0, 1], and is strictly increasing
\* in the illumination.
C9_InterferenceIncreasing ==
    (Returned("get_moon_interference") /\ call.is_moon_up) =>
        /\ ret.value \in 0..Scale
        /\ call.illumination_percent = 0 => ret.value = 0
        /\ call.illumination_percent = 100 => ret.value = Scale
        /\ \A brighter \in Percents :
              brighter > call.illumination_percent =>
                  get_moon_interference(brighter, TRUE) > ret.value

\* C9 witness: the interference of a full moon above the horizon is 1.0.
C9_Witness ==
    /\ Returned("get_moon_interference")
    /\ call.is_moon_up
    /\ call.illumination_percent = 100
    /\ ret.value = Scale

\* C10: with the moon up and 0 < illumination < 100 the interference is
\* strictly greater than the linear value illumination/100; the interference
\* of a half-illuminated moon lies between 0.3 and 0.7.
C10_InterferenceFrontLoaded ==
    (/\ Returned("get_moon_interference")
     /\ call.is_moon_up
     /\ 0 < call.illumination_percent
     /\ call.illumination_percent < 100) =>
        /\ ret.value > normalize(call.illumination_percent)
        /\ call.illumination_percent = 50 =>
              /\ 2 * ret.value > Scale
              /\ 3 * Scale <= 10 * ret.value
              /\ 10 * ret.value <= 7 * Scale

\* C10 witness: the half-illuminated moon interferes more than half as much
\* as the full moon.
C10_Witness ==
    /\ Returned("get_moon_interference")
    /\ call.is_moon_up
    /\ call.illumination_percent = 50
    /\ 2 * ret.value > Scale

\* The recommendations of the assessment that was returned.
Recs == ret.value.recommendations

Has(list, entry) == \E i \in 1..Len(list) : list[i] = entry

CloudEntries == {HeavyCloud, SignificantClouds, SomeClouds}

MoonNotes == {BrightMoon, MoonUp, DarkMoon}

\* The group of the recommendation function an entry belongs to.
GroupOf(entry) ==
    IF entry \in CloudEntries THEN 1
    ELSE IF entry \in MoonNotes THEN 2
    ELSE IF entry = NotFullyDark THEN 3
    ELSE IF entry = ExcellentDeepSky THEN 4
    ELSE 0

\* C11: the recommendations are, in this order, at most one cloud warning, at
\* most one moon note, the not-fully-dark note (present exactly when it is not
\* astronomical night) and the positive note: the groups of the entries
\* strictly increase along the list; cloud 80, moon 90, moon up, not night
\* gives the heavy-cloud warning, the bright-moon note and the not-fully-dark
\* note in that order.
C11_RecommendationOrder ==
    Returned("get_viewing_conditions") =>
        /\ \A i \in 1..Len(Recs) : GroupOf(Recs[i]) \in 1..4
        /\ \A i \in 1..Len(Recs) : \A j \in 1..Len(Recs) :
              i < j => GroupOf(Recs[i]) < GroupOf(Recs[j])
        /\ Has(Recs, NotFullyDark) <=> ~call.is_astronomical_night
        /\ (/\ call.cloud_cover_percent = 80
            /\ call.moon_illumination_percent = 90
            /\ call.is_moon_up
            /\ ~call.is_astronomical_night) =>
                Recs = <<HeavyCloud, BrightMoon, NotFullyDark>>

\* C11 witness: the example call has returned its three entries.
C11_Witness ==
    /\ Returned("get_viewing_conditions")
    /\ call.cloud_cover_percent = 80
    /\ call.moon_illumination_percent = 90
    /\ call.is_moon_up
    /\ ~call.is_astronomical_night
    /\ Len(Recs) = 3

\* C12: cloud > 75 gives only the heavy-cloud warning, 50 < cloud <= 75 only
\* the intermittent-viewing warning, 25 < cloud <= 50 only the find-gaps
\* advice, cloud <= 25 no cloud entry; never two cloud entries.
C12_CloudGroup ==
    Returned("get_viewing_conditions") =>
        LET c == call.cloud_cover_percent
        IN  /\ Has(Recs, HeavyCloud) <=> c > 75
            /\ Has(Recs, SignificantClouds) <=> (50 < c /\ c <= 75)
            /\ Has(Recs, SomeClouds) <=> (25 < c /\ c <= 50)
            /\ Cardinality({i \in 1..Len(Recs) : Recs[i] \in CloudEntries}) <= 1

\* C12 witness: at 76% cloud the heavy-cloud warning is the one cloud entry.
C12_Witness ==
    /\ Returned("get_viewing_conditions")
    /\ call.cloud_cover_percent = 76
    /\ Has(Recs, HeavyCloud)
    /\ ~Has(Recs, SignificantClouds)
    /\ ~Has(Recs, SomeClouds)

\* C13: the bright-moon note appears exactly when illumination > 80 and the
\* moon is up, the washed-out note exactly when 50 < illumination <= 80 and
\* the moon is up, the dark-moon note exactly when illumination < 20 whether
\* or not the moon is up; never two moon notes.
C13_MoonGroup ==
    Returned("get_viewing_conditions") =>
        LET m == call.moon_illumination_percent
        IN  /\ Has(Recs, BrightMoon) <=> (m > 80 /\ call.is_moon_up)
            /\ Has(Recs, MoonUp) <=> (50 < m /\ m <= 80 /\ call.is_moon_up)
            /\ Has(Recs, DarkMoon) <=> m < 20
            /\ Cardinality({i \in 1..Len(Recs) : Recs[i] \in MoonNotes}) <= 1

\* C13 witness: a bright moon below the horizon gets no moon note.
C13_Witness ==
    /\ Returned("get_viewing_conditions")
    /\ call.moon_illumination_percent = 90
    /\ ~call.is_moon_up
    /\ \A i \in 1..Len(Recs) : Recs[i] \notin MoonNotes

\* C14: the positive note is in the list exactly when cloud < 20 and
\* illumination < 30, whatever is_moon_up, is_astronomical_night and the
\* notes appended before it.
C14_PositiveNote ==
    Returned("get_viewing_conditions") =>
        (Has(Recs, ExcellentDeepSky) <=>
            (call.cloud_cover_percent < 20 /\ call.moon_illumination_percent < 30))

\* C14 witness: the positive note next to the dark-moon and the
\* not-fully-dark notes.
C14_Witness ==
    /\ Returned("get_viewing_conditions")
    /\ Recs = <<DarkMoon, NotFullyDark, ExcellentDeepSky>>

\* The lengths the recommendation list takes over the whole domain.
RecommendationLengths ==
    {Len(_generate_recommendations(c, m, n, u)) :
        c \in 0..MaxPercent, m \in 0..MaxPercent, n \in BOOLEAN, u \in BOOLEAN}

\* C15 as stated: the list has at most 4 entries and the lengths 0 through 4
\* are the possible outcomes.
C15_LengthsZeroToFour ==
    /\ Returned("get_viewing_conditions") => Len(Recs) <= 4
    /\ RecommendationLengths = 0..4

\* C15 amended: the list has at most 3 entries, and the lengths 0 through 3
\* all occur.
C15_LengthsZeroToThree ==
    /\ Returned("get_viewing_conditions") => Len(Recs) <= 3
    /\ RecommendationLengths = 0..3

\* C15 witness: a list of the greatest length has been returned.
C15_Witness ==
    /\ Returned("get_viewing_conditions")
    /\ Len(Recs) = 3
    /\ Has(Recs, SomeClouds)

\* C16: an OVERCAST assessment has the summary 'Overcast skies - wait for
\* better conditions' whatever its score; a MOSTLY_CLOUDY one the base
\* sentence of its score followed by ' - clouds may interfere'; a CLEAR or
\* PARTLY_CLOUDY one the base sentence unchanged.
C16_SummaryText ==
    Returned("get_viewing_conditions") =>
        LET a == ret.value
            base == CASE a.score = "EXCELLENT" -> "Outstanding stargazing conditions"
                      [] a.score = "GOOD" -> "Good conditions for astronomy"
                      [] a.score = "FAIR" -> "Acceptable viewing with some limitations"
                      [] a.score = "POOR" -> "Challenging conditions for observing"
                      [] a.score = "NOT_RECOMMENDED" -> "Not suitable for stargazing"
        IN  /\ a.cloud_cover = "OVERCAST" =>
                  a.summary = "Overcast skies - wait for better conditions"
            /\ a.cloud_cover = "MOSTLY_CLOUDY" =>
                  a.summary = base \o " - clouds may interfere"
            /\ a.cloud_cover \in {"CLEAR", "PARTLY_CLOUDY"} => a.summary = base

\* C16 witness: an overcast assessment that scores GOOD has the overcast
\* summary.
C16_Witness ==
    /\ Returned("get_viewing_conditions")
    /\ ret.value.cloud_cover = "OVERCAST"
    /\ ret.value.score = "GOOD"
    /\ ret.value.summary = "Overcast skies - wait for better conditions"

\* C17: is_dark_sky is true exactly when is_astronomical_night is true and
\* light_pollution_factor < 0.3 (exactly 0.3 gives false).
C17_DarkSky ==
    Returned("get_viewing_conditions") =>
        (ret.value.is_dark_sky <=>
            (call.is_astronomical_night /\ 10 * call.light_pollution_factor < 3 * LpUnit))

\* C17 witness: at night with a factor of exactly 0.3 the sky is not dark.
C17_Witness ==
    /\ Returned("get_viewing_conditions")
    /\ call.is_astronomical_night
    /\ 10 * call.light_pollution_factor = 3 * LpUnit
    /\ ~ret.value.is_dark_sky

\* Every field of an assessment holds a value of its type.
Populated(a) ==
    /\ DOMAIN a = {"score", "numeric_score", "cloud_cover", "moon_illumination_percent",
                   "is_dark_sky", "summary", "recommendations"}
    /\ a.score \in ViewingScore
    /\ a.numeric_score \in Int
    /\ a.cloud_cover \in CloudCover
    /\ a.moon_illumination_percent \in Int
    /\ a.is_dark_sky \in BOOLEAN
    /\ a.summary \in {_generate_summary(s, c) : s \in ViewingScore, c \in CloudCover}
    /\ \A i \in 1..Len(a.recommendations) : GroupOf(a.recommendations[i]) \in 1..4

\* The call ended, by a return or by an exception.
Ended == pc # "call" /\ call.fn = "get_viewing_conditions"

C18_ConcurrentInvocationsIndependent ==
    /\ \A t \in DOMAIN frames :
           frames[t].pc = "return" => frames[t].ret = Return(Alone(frames[t].call))
    /\ \A t, u \in DOMAIN frames :
           (frames[t].pc = "return" /\ frames[u].pc = "return"
            /\ frames[t].call = frames[u].call) => frames[t].ret = frames[u].ret

\* C18 witness: two threads assessed different conditions at the same time
\* and both have returned.
C18_Witness ==
    /\ DOMAIN frames = Threads
    /\ \A t \in Threads : frames[t].pc = "return"
    /\ \E t, u \in Threads :
           /\ frames[t].call.fn = "get_viewing_conditions"
           /\ frames[u].call.fn = "get_viewing_conditions"
           /\ frames[t].ret # frames[u].ret

\* The viewing sentences a report can hold for the score n.
ViewingSentences(n) ==
    LET tails == {"", " with overcast skies", " with partly cloudy skies"}
                 \cup {" - " \o lower(_generate_summary(sc, c)) :
                          sc \in ViewingScore, c \in CloudCover}
    IN  {"Viewing conditions are " \o condition \o " (" \o ToString(n) \o "/100)"
         \o tail \o "." :
            condition \in {"excellent", "good", "fair", "poor"}, tail \in tails}

\* C20: whenever the viewing client returns an assessment, _get_viewing_data
\* returns (numeric_score, cloud cover percent, summary), get_summary stores
\* that numeric_score in viewing_score, and the summary text contains the
\* sentence "Viewing conditions are ... (N/100)".
C20_AssessmentFolded ==
    (Returned("get_summary") /\ frames[1].locals.conditions.returned) =>
        LET assessment == frames[1].locals.conditions.value
            viewing_data == frames[1].locals.viewing_data
            parts == frames[1].locals.parts
        IN  /\ viewing_data[1] = Some(assessment.numeric_score)
            /\ viewing_data[2].some
            /\ viewing_data[3] = Some(assessment.summary)
            /\ ret.value.viewing_score = Some(assessment.numeric_score)
            /\ \E i \in 1..Len(parts) : parts[i] \in ViewingSentences(assessment.numeric_score)

\* The score and the cloud cover of the call that returned, whichever of the
\* two scoring functions it was.
ReturnedScore ==
    IF call.fn = "get_viewing_conditions" THEN ret.value.numeric_score ELSE ret.value

ScoreReturned == Returned("calculate_viewing_score") \/ Returned("get_viewing_conditions")

\* round(100 - cloud_cover_percent / 2)
CloudBound(cloud) == round(100 * Scale - cloud * (Scale \div 2))

\* C25: the score never exceeds the score of the same cloud cover with the
\* best moon, darkness and light pollution, which is round(100 - cloud/2); an
\* OVERCAST assessment is never EXCELLENT and 100% cloud is never rated
\* better than FAIR (score at most 50).
C25_CloudDominance ==
    /\ ScoreReturned =>
           /\ ReturnedScore <= CloudBound(call.cloud_cover_percent)
           /\ CloudBound(call.cloud_cover_percent)
                  = calculate_viewing_score(call.cloud_cover_percent, 0, TRUE, FALSE, 0)
    /\ Returned("get_viewing_conditions") =>
           /\ ret.value.cloud_cover = "OVERCAST" => ret.value.score # "EXCELLENT"
           /\ call.cloud_cover_percent = 100 =>
                  /\ ret.value.numeric_score <= 50
                  /\ ret.value.score \in {"FAIR", "POOR", "NOT_RECOMMENDED"}

\* C25 witness: a fully clouded sky with everything else at its best reached
\* the bound, 50 and FAIR.
C25_Witness ==
    /\ Returned("get_viewing_conditions")
    /\ call.cloud_cover_percent = 100
    /\ ret.value.numeric_score = 50
    /\ ret.value.score = "FAIR"

\* C26: the score is never less than 6: the values 0..5 are not returned, and
\* NOT_RECOMMENDED is given only to scores 6..19.
C26_LowerBound ==
    /\ ScoreReturned => ReturnedScore >= 6
    /\ Returned("get_viewing_conditions") =>
           (ret.value.score = "NOT_RECOMMENDED" => ret.value.numeric_score \in 6..19)

\* C26 witness: the worst inputs returned exactly 6, NOT_RECOMMENDED.
C26_Witness ==
    /\ Returned("get_viewing_conditions")
    /\ ret.value.numeric_score = 6
    /\ ret.value.score = "NOT_RECOMMENDED"
    /\ ~call.is_astronomical_night

\* The cloud entry of the list agrees with the cloud-cover category.
CloudEntryAgrees(list, cloud_cover) ==
    /\ Has(list, HeavyCloud) <=> cloud_cover = "OVERCAST"
    /\ Has(list, SignificantClouds) <=> cloud_cover = "MOSTLY_CLOUDY"
    /\ Has(list, SomeClouds) <=> cloud_cover = "PARTLY_CLOUDY"
    /\ (\A e \in CloudEntries : ~Has(list, e)) <=> cloud_cover = "CLEAR"

\* C27 as stated: in every assessment the cloud recommendation agrees with
\* the cloud_cover category, for every cloud percentage, 25, 50 and 75
\* included.
C27_CloudEntryMatchesCategory ==
    Returned("get_viewing_conditions") => CloudEntryAgrees(Recs, ret.value.cloud_cover)

\* C27 amended: the cloud recommendation agrees with the cloud_cover category
\* for every cloud percentage except exactly 25, 50 and 75, where the
\* category is already the higher one (its bands include their lower bound)
\* and the recommendation still the lower one (its thresholds are strict).
C27_CloudEntryMatchesCategoryOffBoundary ==
    Returned("get_viewing_conditions") =>
        /\ CloudEntryAgrees(Recs, ret.value.cloud_cover)
               <=> call.cloud_cover_percent \notin {25, 50, 75}
        /\ call.cloud_cover_percent = 75 =>
               ret.value.cloud_cover = "OVERCAST" /\ Has(Recs, SignificantClouds)
        /\ call.cloud_cover_percent = 50 =>
               ret.value.cloud_cover = "MOSTLY_CLOUDY" /\ Has(Recs, SomeClouds)
        /\ call.cloud_cover_percent = 25 =>
               /\ ret.value.cloud_cover = "PARTLY_CLOUDY"
               /\ \A e \in CloudEntries : ~Has(Recs, e)

\* C27 witness: at 75% cloud an OVERCAST assessment came with the
\* intermittent-viewing warning.
C27_Witness ==
    /\ Returned("get_viewing_conditions")
    /\ call.cloud_cover_percent = 75
    /\ ret.value.cloud_cover = "OVERCAST"
    /\ Has(Recs, SignificantClouds)
    /\ ~Has(Recs, HeavyCloud)

\* C28: no list holds both a cloud entry and the positive note, a cloud entry
\* needing cloud > 25 and the positive note cloud < 20; so no list has more
\* than 3 entries.
C28_CloudEntryExcludesPositiveNote ==
    Returned("get_viewing_conditions") =>
        /\ (\E e \in CloudEntries : Has(Recs, e)) => call.cloud_cover_percent > 25
        /\ Has(Recs, ExcellentDeepSky) => call.cloud_cover_percent < 20
        /\ ~((\E e \in CloudEntries : Has(Recs, e)) /\ Has(Recs, ExcellentDeepSky))
        /\ Len(Recs) <= 3

\* C28 witness: a list of three entries ending in the positive note, without
\* a cloud entry.
C28_Witness ==
    /\ Returned("get_viewing_conditions")
    /\ Recs = <<DarkMoon, NotFullyDark, ExcellentDeepSky>>

\* C24: get_twilight_type returns exactly one type for every altitude, with
\* the boundary altitude in the brighter type: DAY from 0 up, CIVIL from -6
\* to below 0, NAUTICAL from -12 to below -6, ASTRONOMICAL from -18 to below
\* -12, NIGHT below -18; exactly -18 is ASTRONOMICAL, not NIGHT.
C24_TwilightBands ==
    Returned("get_twilight_type") =>
        LET a == call.sun_altitude
            t == ret.value
        IN  /\ t \in TwilightType
            /\ t = "DAY" <=> a >= 0
            /\ t = "CIVIL" <=> (-6 * AltUnit <= a /\ a < 0)
            /\ t = "NAUTICAL" <=> (-12 * AltUnit <= a /\ a < -6 * AltUnit)
            /\ t = "ASTRONOMICAL" <=> (-18 * AltUnit <= a /\ a < -12 * AltUnit)
            /\ t = "NIGHT" <=> a < -18 * AltUnit
            /\ a = -18 * AltUnit => t = "ASTRONOMICAL"

\* C24 witness: the sun exactly 18 degrees below the horizon was classified
\* ASTRONOMICAL.
C24_Witness ==
    /\ Returned("get_twilight_type")
    /\ call.sun_altitude = -18 * AltUnit
    /\ ret.value = "ASTRONOMICAL"

\* The cloud cover, in tenths, the location call in progress should use.
ResolvedCloud ==
    IF call.forecast.some /\ Len(call.forecast.value.nighttime) > 0
    THEN (sum(call.forecast.value.nighttime) * CloudUnit)
             \div Len(call.forecast.value.nighttime)
    ELSE IF call.forecast.some /\ call.current_forecast.some
            /\ Len(call.current_forecast.value.hourly) > 0
    THEN CloudUnit * call.current_forecast.value.hourly[
                         IF call.current_forecast.value.now > 0
                         THEN call.current_forecast.value.now ELSE 1]
    ELSE 0

\* The default cloud cover was substituted for weather data.
DefaultSubstituted ==
    \/ ~call.forecast.some
    \/ /\ Len(call.forecast.value.nighttime) = 0
       /\ ~get_current_cloud_cover(call.current_forecast).some

\* C21: when weather data is unavailable and the default cloud cover is
\* substituted, the returned numeric_score is not higher than the score for
\* the same moon illumination and light pollution with weather data
\* available, whatever cloud cover that data reports.
C21_UnavailableNeverRaisesScore ==
    (Returned("get_viewing_conditions_for_location") /\ DefaultSubstituted) =>
        \A cloud \in Percents :
            ret.value.numeric_score
                <= location_assessment(cloud * CloudUnit, call.moon_illumination_percent,
                                       call.light_pollution_factor).numeric_score

\* C22: the cloud input is the nighttime-hours average when the weather
\* result is available and has nighttime data, otherwise the current-hour
\* cloud cover when the result is available and the lookup returns a value,
\* otherwise 0; the call never raises and always goes on to return an
\* assessment, also when the weather request failed.
C22_CloudResolutionOrder ==
    call.fn = "get_viewing_conditions_for_location" =>
        /\ pc # "raise"
        /\ pc # "return" => ENABLED NextLocation
        /\ pc = "return" =>
               /\ ret.returned
               /\ frames[1].locals.cloud_cover = ResolvedCloud
               /\ ret.value.cloud_cover = from_percent(ResolvedCloud \div CloudUnit)
               /\ ~call.forecast.some => frames[1].locals.cloud_cover = 0

\* C22 witness: without nighttime data the cloud cover of the current hour,
\* the second of two, was used.
C22_Witness ==
    /\ Returned("get_viewing_conditions_for_location")
    /\ call.forecast = Some([nighttime |-> <<>>])
    /\ call.current_forecast = Some([hourly |-> <<0, 100>>, now |-> 2])
    /\ frames[1].locals.cloud_cover = 100 * CloudUnit
    /\ ret.value.cloud_cover = "OVERCAST"

\* C29: every assessment of the location call is computed with
\* is_astronomical_night and is_moon_up true: it never recommends 'Not fully
\* dark - brighter objects only', its is_dark_sky is light pollution < 0.3,
\* and its moon sub-score is reduced by the illumination (below 100 as soon
\* as the illumination is above 0).
C29_NightAndMoonUpAssumed ==
    Returned("get_viewing_conditions_for_location") =>
        /\ ret.value = get_viewing_conditions(frames[1].locals.cloud_cover \div CloudUnit,
                                              call.moon_illumination_percent,
                                              TRUE, TRUE,
                                              call.light_pollution_factor)
        /\ ~Has(Recs, NotFullyDark)
        /\ ret.value.is_dark_sky <=> call.light_pollution_factor * 10 < 3 * LpUnit
        /\ ret.value.numeric_score
               = round(weigh(cloud_score(frames[1].locals.cloud_cover \div CloudUnit), 50)
                       + weigh(100 * (Scale - pow07(normalize(call.moon_illumination_percent))), 25)
                       + weigh(100 * Scale, 15)
                       + weigh(lp_score(call.light_pollution_factor), 10))
        /\ call.moon_illumination_percent > 0 =>
               pow07(normalize(call.moon_illumination_percent)) > 0

\* C29 witness: a full moon cost the whole moon quarter of the score.
C29_Witness ==
    /\ Returned("get_viewing_conditions_for_location")
    /\ call.moon_illumination_percent = 100
    /\ call.light_pollution_factor = 0
    /\ frames[1].locals.cloud_cover = 0
    /\ ret.value.numeric_score = 75
    /\ Has(Recs, BrightMoon)

\* The field values a fetcher's outcome must leave in the data: the fetched
\* ones, the defaults when it raised.
Kept(outcome, defaults) == IF outcome.returned THEN outcome.value ELSE defaults

\* C23: whichever of the six sources raise, get_summary returns a TonightData
\* in which the fields of the failed sources have their defaults and the
\* fields of every other source the fetched values (so the sources after a
\* failure were still fetched), and summary_text is a non-empty string that
\* begins with 'Tonight:'.
C23_FailuresIsolated ==
    (call.fn = "get_summary" /\ "iss" \in DOMAIN call) =>
        /\ pc # "raise"
        /\ pc # "return" => ENABLED NextSources
        /\ pc = "return" =>
               LET data == ret.value
               IN  /\ ret.returned
                   /\ <<data.moon_phase, data.moon_illumination,
                        data.moon_rise_time, data.moon_set_time>>
                          = Kept(call.moon, <<None, None, None, None>>)
                   /\ data.iss_passes = Kept(call.iss, <<>>)
                   /\ data.visible_planets = Kept(call.planets, <<>>)
                   /\ data.active_meteor_showers = Kept(call.meteors, <<>>)
                   /\ <<data.aurora_kp, data.aurora_activity>>
                          = Kept(call.aurora, <<None, None>>)
                   /\ <<data.viewing_score, data.cloud_cover_percent,
                        data.viewing_description>>
                          = Kept(call.viewing, <<None, None, None>>)
                   /\ data.summary_text.some
                   /\ data.summary_text.value # ""
                   /\ data.summary_text.value = join(frames[1].locals.parts)
                   /\ Len(frames[1].locals.parts) >= 2
                   /\ frames[1].locals.parts[1] = "Tonight:"

\* C23 witness: moon, meteors and viewing raised, and the planets fetched
\* between them are in the data and in the text.
C23_Witness ==
    /\ Returned("get_summary")
    /\ "iss" \in DOMAIN call
    /\ ~call.moon.returned /\ ~call.meteors.returned /\ ~call.viewing.returned
    /\ call.iss = Return(<<>>)
    /\ call.aurora = Return(<<Some(1), Some("QUIET")>>)
    /\ ret.value.visible_planets = <<"Jupiter">>
    /\ ret.value.moon_phase = None
    /\ ret.value.summary_text = Some("Tonight: Jupiter is visible in the sky.")

\* The clients of one class that the getters of one object constructed.
Created(class, owner) ==
    {i \in DOMAIN heap : heap[i].class = class /\ heap[i].owner = owner}

\* The field a getter stores a client of the class in.
FieldOf(class) ==
    CASE class = "ViewingClient" -> "_viewing_client"
      [] class = "WeatherClient" -> "_weather_client"
      [] class = "MoonClient" -> "_moon_client"

\* No thread is inside get_summary.
ThreadsEnded == \A t \in Threads : frames[t].pc \in {"start", "return"}

\* C30: the window's TonightSummary constructs at most one ViewingClient and
\* a ViewingClient at most one WeatherClient and one MoonClient, however the
\* initial-load thread and the refresh threads interleave; once the threads
\* have ended every constructed client is the one its owner's field holds,
\* and once close() has run as well every constructed client was closed.
C30_ClientsCreatedOnce ==
    call.fn = "MainWindow" =>
        /\ Cardinality(Created("ViewingClient", Tonight)) <= 1
        /\ \A v \in Created("ViewingClient", Tonight) :
               /\ Cardinality(Created("WeatherClient", v)) <= 1
               /\ Cardinality(Created("MoonClient", v)) <= 1
        /\ ThreadsEnded =>
               \A i \in DOMAIN heap \ {Tonight} :
                   heap[heap[i].owner].attrs[FieldOf(heap[i].class)] = Some(i)
        /\ (ThreadsEnded /\ frames[MainThread].pc = "return") =>
               \A i \in DOMAIN heap \ {Tonight} : heap[i].closed

====
